---- MODULE Spec2Model ----
(***************************************************************************)
(* Voice transcription bot: the pipeline of handle_voice (upload, submit,  *)
(* poll, usage record, chunked delivery), the name-mention resolution      *)
(* (process_chat_message, LLMService.process_name_mention,                 *)
(* process_name_mentions, handle_user_selection) and the text rewrite      *)
(* replace_name_with_username.                                             *)
(*                                                                         *)
(* The repository holds two renderings of handle_voice: the registered     *)
(* handler of src/app/bot.py (variant "bot") and the one of                *)
(* src/app/handlers/voice.py (variant "handlers").  Both are modelled; the *)
(* variable `variant` says which one a behaviour runs.                     *)
(*                                                                         *)
(* Texts are strings.  The module is ASCII: the source's Russian literals  *)
(* are given in English, names and transcripts in Latin transliteration,   *)
(* emoji as "*" and "X"; the structure of every text (header, separators,  *)
(* payload) is the source's.                                               *)
(*                                                                         *)
(* Specifications: Spec (one voice message, handlers dispatched directly), *)
(* SpecMain (the bot as main() starts it), SpecSelect (options pressed     *)
(* repeatedly), SpecLive (handle_voice under fair scheduling), SpecLoop    *)
(* (several voice messages in one event loop), SpecDb (the upsert          *)
(* functions of models.py), SpecRewrite (replace_name_with_username alone) *)
(* and SpecMatch (process_chat_message alone).                             *)
(***************************************************************************)
EXTENDS Integers, Sequences, FiniteSets, TLC

(***************************************************************************)
(* Bounds of the model.                                                    *)
(***************************************************************************)
MaxPolls  == 2   \* poll requests per job explored
MaxLen    == 3   \* longest text given to replace_name_with_username alone
MaxClicks == 2   \* callback queries in flight at once
MaxTasks   == 2  \* voice messages in progress at once
MaxCallers == 2  \* upsert calls in progress at once

(***************************************************************************)
(* Program constants.                                                      *)
(***************************************************************************)
ChunkSize == 4000            \* bot.py:384, handlers/voice.py:233

None == "<None>"             \* Python None / a missing key
NonDict == "<not a dict>"    \* a JSON body that parses to something else
EmptyDict == [k \in {} |-> None]

Get(d, k) == IF k \in DOMAIN d THEN d[k] ELSE None     \* dict.get(k)
Falsy(v) == v \in {None, ""}                            \* `not v`

Min(a, b) == IF a < b THEN a ELSE b

(***************************************************************************)
(* Strings.                                                                *)
(***************************************************************************)
CharAt(s, i) == SubSeq(s, i, i)

RECURSIVE Rep(_, _)
Rep(s, k) ==
    IF k = 0 THEN ""
    ELSE IF k % 2 = 1 THEN s \o Rep(s, k - 1)
    ELSE LET h == Rep(s, k \div 2) IN h \o h

\* re.IGNORECASE: simple case folding, character by character
Lower(c) ==
    CASE c = "K" -> "k"
      [] c = "S" -> "s"
      [] c = "P" -> "p"
      [] OTHER -> c

\* the character class [\s,.!?] of the pattern
Delimiters == {" ", "\t", "\n", ",", ".", "!", "?"}

StartsWith(s, p) == Len(s) >= Len(p) /\ SubSeq(s, 1, Len(p)) = p

\* str.split(sep) for a one-character separator: the list of fields
RECURSIVE SplitFrom(_, _, _, _)
SplitFrom(s, sep, i, start) ==
    IF i > Len(s) THEN << SubSeq(s, start, Len(s)) >>
    ELSE IF CharAt(s, i) = sep
         THEN << SubSeq(s, start, i - 1) >> \o SplitFrom(s, sep, i + 1, i + 1)
         ELSE SplitFrom(s, sep, i + 1, start)

Split(s, sep) == SplitFrom(s, sep, 1, 1)

(***************************************************************************)
(* user_service.replace_name_with_username                                 *)
(***************************************************************************)
\* re.escape(found_name) matched at position 0 under re.IGNORECASE
NameAtStart(text, found_name) ==
    /\ Len(text) >= Len(found_name)
    /\ \A i \in 1..Len(found_name) :
          Lower(CharAt(text, i)) = Lower(CharAt(found_name, i))

\* group(1) of ^name([\s,.!?]|$): the delimiter after the name, "" at the
\* end of the text, None when the pattern does not match
MatchGroup(text, found_name) ==
    LET k == Len(found_name) IN
    IF ~NameAtStart(text, found_name) THEN None
    ELSE IF Len(text) > k /\ CharAt(text, k + 1) \in Delimiters
         THEN CharAt(text, k + 1)
    ELSE IF Len(text) = k THEN ""
    ELSE None

\* a rewrite that puts the bare handle in place of the name and its delimiter
replace_name_with_handle(text, found_name, username) ==
    LET g == MatchGroup(text, found_name) IN
    IF g # None
    THEN username \o SubSeq(text, Len(found_name) + Len(g) + 1, Len(text))
    ELSE text

replace_name_with_username(text, found_name, username) ==
    LET g == MatchGroup(text, found_name) IN
    IF g # None
    THEN LET suffix   == g
             matchEnd == Len(found_name) + Len(g)
         IN  ("@" \o username \o suffix) \o SubSeq(text, matchEnd + 1, Len(text))
    ELSE text

(***************************************************************************)
(* Chunking and headers of the delivered messages (handle_voice).          *)
(***************************************************************************)
CeilDiv(a, b) == (a + b - 1) \div b

\* slices that leave out a last, shorter one
SlicesFloor(full_text) ==
    [ j \in 1..(Len(full_text) \div ChunkSize) |->
        SubSeq(full_text, (j - 1) * ChunkSize + 1, j * ChunkSize) ]

\* [full_text[i : i + 4000] for i in range(0, len(full_text), 4000)]
Slices(full_text) ==
    [ j \in 1..CeilDiv(Len(full_text), ChunkSize) |->
        SubSeq(full_text, (j - 1) * ChunkSize + 1,
               Min(j * ChunkSize, Len(full_text))) ]

\* the payloads handle_voice delivers: the slices when the text is longer
\* than the chunk size, the whole text in one message otherwise
Parts(full_text) ==
    IF Len(full_text) > ChunkSize THEN Slices(full_text) ELSE << full_text >>

\* the text a payload is sent with
Decorate(full_text, j) ==
    IF Len(full_text) > ChunkSize
    THEN "* Part " \o ToString(j) \o "/" \o ToString(Len(Parts(full_text)))
            \o ":\n\n" \o Parts(full_text)[j]
    ELSE "* Transcript:\n\n" \o full_text

(***************************************************************************)
(* Fixed user-facing texts of handle_voice.                                *)
(***************************************************************************)
TextStart       == "Starting to process the voice message..."
TextDownloading == "Downloading the voice message..."
TextUploading   == "Uploading audio to the server..."
TextSubmitting  == "Starting transcription..."
TextWaiting     == "Waiting for transcription results..."
NoticeUpload    == "X Error uploading audio. Please try again."
NoticeSubmit    == "X Error submitting for transcription. Please try again."
NoticeNoText    == "X Could not get the transcription text. Please try again."
NoticeGeneric   ==
    "X An error occurred while processing the voice message.\n"
    \o "Please try again or contact the administrator."

FailureNotices == {NoticeUpload, NoticeSubmit, NoticeNoText, NoticeGeneric}

(***************************************************************************)
(* Option encoding (process_name_mentions / handle_user_selection).        *)
(***************************************************************************)
CallbackPrefix == "select_user:"

Button(found_name, user) ==
    [ text          |-> user[1] \o " (@" \o user[2] \o ")",
      callback_data |-> CallbackPrefix \o found_name \o ":" \o user[2],
      found_name    |-> found_name,        \* the pair the option was built from
      username      |-> user[2] ]

\* a keyboard that offers the first candidate only
KeyboardFirstOnly(found_name, matching_users) ==
    << Button(found_name, matching_users[1]) >>

\* builder.button(...) for firstname, username, _ in matching_users
Keyboard(found_name, matching_users) ==
    [ k \in 1..Len(matching_users) |-> Button(found_name, matching_users[k]) ]

\* _, found_name, username = callback_query.data.split(":")
DecodeOk(data) == Len(Split(data, ":")) = 3

Decode(data) == [ found_name |-> Split(data, ":")[2],
                  username   |-> Split(data, ":")[3] ]

(***************************************************************************)
(* Remote transcription service: one HTTP exchange is                      *)
(*   raised  the request raised (transport error),                         *)
(*   status  the HTTP status,                                              *)
(*   json    "invalid" (json.loads raises), "other" (parses to a non-dict) *)
(*           or "dict", and then `d` is the parsed object.                 *)
(* A Python value the code goes on to use is [isdict, d].                  *)
(***************************************************************************)
PyDict(d) == [isdict |-> TRUE, d |-> d]
PyOther   == [isdict |-> FALSE, d |-> EmptyDict]

Exchange(raised, status, json, d) ==
    [raised |-> raised, status |-> status, json |-> json, d |-> d]

Parsed(x) == IF x.json = "dict" THEN PyDict(x.d) ELSE PyOther

NoExchange == Exchange(FALSE, 0, "none", EmptyDict)    \* no request made yet

AudioUrl  == "https://api.gladia.io/file/1"
ResultUrl == "https://api.gladia.io/v2/transcription/1"

UploadExchanges ==
    { Exchange(TRUE, 200, "dict", EmptyDict),
      Exchange(FALSE, 500, "dict", [audio_url |-> AudioUrl]),
      Exchange(FALSE, 200, "invalid", EmptyDict),
      Exchange(FALSE, 200, "other", EmptyDict),
      Exchange(FALSE, 200, "dict", EmptyDict),
      Exchange(FALSE, 200, "dict", [audio_url |-> ""]),
      Exchange(FALSE, 200, "dict", [audio_url |-> AudioUrl]) }

SubmitExchanges ==
    { Exchange(TRUE, 200, "dict", EmptyDict),
      Exchange(FALSE, 500, "dict", [result_url |-> ResultUrl]),
      Exchange(FALSE, 200, "invalid", EmptyDict),
      Exchange(FALSE, 200, "dict", EmptyDict),
      Exchange(FALSE, 200, "dict", [result_url |-> ResultUrl]),
      Exchange(FALSE, 201, "dict", [result_url |-> ResultUrl]) }

\* bot.py:58-92: {} on a non-200 status and on any exception
upload_audio_to_gladia(x) ==
    IF x.raised THEN PyDict(EmptyDict)
    ELSE IF x.status # 200 THEN PyDict(EmptyDict)
    ELSE IF x.json = "invalid" THEN PyDict(EmptyDict)
    ELSE Parsed(x)

\* bot.py:95-130: {} on a status outside [200, 201] and on any exception
transcribe_audio(x) ==
    IF x.raised THEN PyDict(EmptyDict)
    ELSE IF x.status \notin {200, 201} THEN PyDict(EmptyDict)
    ELSE IF x.json = "invalid" THEN PyDict(EmptyDict)
    ELSE Parsed(x)

\* a check of audio_url that lets every upload response through
NoAudioUrlLenient(resp) == FALSE

\* `not upload_response.get("audio_url")` (on a dict)
NoAudioUrl(resp) == Falsy(Get(resp.d, "audio_url"))

\* a check of result_url that lets every submit response through
NoResultUrlLenient(resp) == FALSE

\* `not transcription_response.get("result_url")` (on a dict)
NoResultUrl(resp) == Falsy(Get(resp.d, "result_url"))

(***************************************************************************)
(* Transcripts the remote job may return.                                  *)
(***************************************************************************)
ShortTranscripts ==
    { "", "Kostya, privet!", "kostya", "Kostya; privet", "Kostyan privet",
      "Privet, Kostya", "Sasha: privet" }

\* a text of length n >= 8 that starts with a name of address
Stretch(n) == SubSeq("Kostya, " \o Rep("abc", n), 1, n)

\* one chunk exactly, one character more, and two chunks exactly
LongLengths == {ChunkSize, ChunkSize + 1, 2 * ChunkSize}

Transcripts == ShortTranscripts \cup { Stretch(n) : n \in LongLengths }

Duration == 3                \* result.metadata.audio_duration of the job

DoneBody(t) ==
    [ status |-> "done",
      result |-> [ transcription |-> [full_transcript |-> t],
                   metadata      |-> [audio_duration |-> Duration] ] ]

PollExchanges ==
    { Exchange(TRUE, 200, "dict", EmptyDict),
      Exchange(FALSE, 500, "dict", [status |-> "done"]),
      Exchange(FALSE, 200, "invalid", EmptyDict),
      Exchange(FALSE, 200, "other", EmptyDict),
      Exchange(FALSE, 200, "dict", EmptyDict),
      Exchange(FALSE, 200, "dict", [status |-> "queued"]),
      Exchange(FALSE, 200, "dict", [status |-> "processing"]),
      Exchange(FALSE, 200, "dict", [status |-> "paused"]),
      Exchange(FALSE, 200, "dict", [status |-> "error"]),
      Exchange(FALSE, 200, "dict", [status |-> "done"]),
      Exchange(FALSE, 200, "dict",
               [status |-> "done",
                result |-> [metadata |-> [audio_duration |-> Duration]]]),
      Exchange(FALSE, 200, "dict",
               [status |-> "done", result |-> [transcription |-> EmptyDict]]) }
    \cup { Exchange(FALSE, 200, "dict", DoneBody(t)) : t \in Transcripts }

\* a loop that goes on only for the statuses it knows
PollVerdictKnownOnly(x) ==
    IF x.raised THEN "raise"
    ELSE IF x.status # 200 THEN "raise"
    ELSE IF x.json # "dict" THEN "raise"
    ELSE IF Get(x.d, "status") = "done" THEN "return"
    ELSE IF Get(x.d, "status") \in {"queued", "processing"} THEN "again"
    ELSE "raise"

\* a loop that asks again after a status other than 200
PollVerdictRetry(x) ==
    IF x.raised THEN "raise"
    ELSE IF x.status # 200 THEN "again"
    ELSE IF x.json # "dict" THEN "raise"
    ELSE IF Get(x.d, "status") = "done" THEN "return"
    ELSE IF Get(x.d, "status") = "error" THEN "raise"
    ELSE "again"

\* bot.py:172-192, one pass of the loop of get_transcription_result:
\* "return" the result, "raise", or sleep and poll "again"
PollVerdict(x) ==
    IF x.raised THEN "raise"
    ELSE IF x.status # 200 THEN "raise"
    ELSE IF x.json # "dict" THEN "raise"
    ELSE IF Get(x.d, "status") = "done" THEN "return"
    ELSE IF Get(x.d, "status") = "error" THEN "raise"
    ELSE "again"

\* `"result" in result and "transcription" in result["result"]`
HasTranscription(result) ==
    /\ "result" \in DOMAIN result
    /\ "transcription" \in DOMAIN result["result"]

\* transcription.get("full_transcript", "")
FullText(result) ==
    LET transcription == result["result"]["transcription"] IN
    IF "full_transcript" \in DOMAIN transcription
    THEN transcription["full_transcript"] ELSE ""

\* result.get("result", {}).get("metadata", {}).get("audio_duration", 0)
AudioDuration(result) ==
    IF "metadata" \in DOMAIN result["result"]
    THEN result["result"]["metadata"]["audio_duration"] ELSE 0

(***************************************************************************)
(* Directory (models.py): tables users, chats, user_chats, usages as       *)
(* sequences of rows in insertion order; AutoField ids count from 1.       *)
(***************************************************************************)
ChatId == 7001               \* message.chat.id of the chat the bot serves
MessageId == 55              \* message.message_id of the voice message

UserRow(id, tg_id, firstname, lastname, username) ==
    [ id |-> id, tg_id |-> tg_id, firstname |-> firstname,
      lastname |-> lastname, username |-> username ]

\* the people who may be known at the start; two of them lack a field
Directory ==
    << UserRow(1, 101, "Konstantin", None, "kostya99"),
       UserRow(2, 102, "Sasha", "Ivanov", None),
       UserRow(3, 103, None, None, "ghost"),
       UserRow(4, 104, "Kseniya", None, "ks_anna") >>

\* message.from_user of the voice message
Sender == [ id |-> 101, first_name |-> "Konstantin", last_name |-> None,
            username |-> "kostya99" ]

\* message.chat.title or message.chat.username or str(message.chat.id)
ChatName == "family"

HasUser(users, tg_id) == \E i \in 1..Len(users) : users[i].tg_id = tg_id

\* User.get(User.tg_id == tg_id)
GetUser(users, tg_id) ==
    users[CHOOSE i \in 1..Len(users) : users[i].tg_id = tg_id]

\* models.py:59-76: the table after upsert_user(tg_user)
upsert_user(users, tg_user) ==
    IF HasUser(users, tg_user.id) THEN users
    ELSE Append(users, UserRow(Len(users) + 1, tg_user.id, tg_user.first_name,
                               tg_user.last_name, tg_user.username))

HasChat(chats, tg_chat_id) ==
    \E i \in 1..Len(chats) : chats[i].tg_chat_id = tg_chat_id

GetChat(chats, tg_chat_id) ==
    chats[CHOOSE i \in 1..Len(chats) : chats[i].tg_chat_id = tg_chat_id]

\* models.py:79-94: the table after upsert_chat(message)
upsert_chat(chats, tg_chat_id, name) ==
    IF HasChat(chats, tg_chat_id) THEN chats
    ELSE Append(chats, [ id |-> Len(chats) + 1, tg_chat_id |-> tg_chat_id,
                         name |-> name ])

\* models.py:97-100: UserChat.get_or_create(user=user, chat=chat)
upsert_user_chat(user_chats, user_id, chat_id) ==
    IF \E i \in 1..Len(user_chats) :
          user_chats[i].user = user_id /\ user_chats[i].chat = chat_id
    THEN user_chats
    ELSE Append(user_chats, [ id |-> Len(user_chats) + 1, user |-> user_id,
                              chat |-> chat_id ])

\* an insert into users that ignores the rows already there
InsertUserPlain(users, tg_user) ==
    Append(users, UserRow(Len(users) + 1, tg_user.id, tg_user.first_name,
                          tg_user.last_name, tg_user.username))

\* models.py:72-75: User.insert(**data).on_conflict(conflict_target=[tg_id],
\* update={firstname, lastname, username})
InsertUser(users, tg_user) ==
    IF HasUser(users, tg_user.id)
    THEN [ i \in 1..Len(users) |->
             IF users[i].tg_id = tg_user.id
             THEN [users[i] EXCEPT !.firstname = tg_user.first_name,
                                   !.lastname = tg_user.last_name,
                                   !.username = tg_user.username]
             ELSE users[i] ]
    ELSE Append(users, UserRow(Len(users) + 1, tg_user.id, tg_user.first_name,
                               tg_user.last_name, tg_user.username))

\* models.py:90-93: Chat.insert(**data).on_conflict(conflict_target=
\* [tg_chat_id], update={name})
InsertChat(chats, tg_chat_id, name) ==
    IF HasChat(chats, tg_chat_id)
    THEN [ i \in 1..Len(chats) |->
             IF chats[i].tg_chat_id = tg_chat_id
             THEN [chats[i] EXCEPT !.name = name] ELSE chats[i] ]
    ELSE Append(chats, [ id |-> Len(chats) + 1, tg_chat_id |-> tg_chat_id,
                         name |-> name ])

HasUserChat(user_chats, user_id, chat_id) ==
    \E i \in 1..Len(user_chats) :
        user_chats[i].user = user_id /\ user_chats[i].chat = chat_id

\* the create of get_or_create (models.py:99) under the unique index on
\* (user, chat) (models.py:42-44): an IntegrityError leaves the table as it
\* is and the row is read again
CreateUserChat(user_chats, user_id, chat_id) ==
    IF HasUserChat(user_chats, user_id, chat_id) THEN user_chats
    ELSE Append(user_chats, [ id |-> Len(user_chats) + 1, user |-> user_id,
                              chat |-> chat_id ])

\* upsert_user, upsert_chat, upsert_user_chat of one `with db:` block
\* (bot.py:284-287 and 360-363), as the three tables afterwards
SaveSender(db) ==
    LET us == upsert_user(db.users, Sender)
        cs == upsert_chat(db.chats, ChatId, ChatName)
        u  == GetUser(us, Sender.id)
        c  == GetChat(cs, ChatId)
    IN  [ db EXCEPT !.users = us, !.chats = cs,
                    !.user_chats = upsert_user_chat(db.user_chats, u.id, c.id) ]

\* Usage.create(user, chat, message_id, duration), bot.py:364-369
RecordUsage(db, duration) ==
    LET d == SaveSender(db) IN
    [ d EXCEPT !.usages = Append(d.usages,
        [ id |-> Len(d.usages) + 1,
          user |-> GetUser(d.users, Sender.id).id,
          chat |-> GetChat(d.chats, ChatId).id,
          message_id |-> MessageId, duration |-> duration ]) ]

(***************************************************************************)
(* user_service.process_chat_message and LLMService.process_name_mention   *)
(***************************************************************************)
\* user_service.py:13-18: (firstname, username, id) of the users joined to
\* the chat through user_chats
ChatUsers(db, tg_chat_id) ==
    LET inChat(u) ==
          \E i \in 1..Len(db.user_chats), j \in 1..Len(db.chats) :
             /\ db.user_chats[i].user = u.id
             /\ db.user_chats[i].chat = db.chats[j].id
             /\ db.chats[j].tg_chat_id = tg_chat_id
        rows == SelectSeq(db.users, inChat)
    IN  [ i \in 1..Len(rows) |->
            << rows[i].firstname, rows[i].username, rows[i].id >> ]

\* a roster from which nobody is excluded
ValidUsersUnfiltered(chat_users) == chat_users

\* user_service.py:21-25: `if firstname and username`
ValidUsers(chat_users) ==
    SelectSeq(chat_users, LAMBDA u : ~Falsy(u[1]) /\ ~Falsy(u[2]))

NoMatch == [found_name |-> None, matching_users |-> << >>]

\* What the matching service answers: the call raised, or the text of the
\* reply parses (after the code fence is stripped) to nothing ("invalid"),
\* to a non-object ("other") or to an object with found_name and
\* matching_ids (a missing matching_ids reads as []).
FoundNames == {None, "Kostya", "Sasha:"}
ReplyIds == SUBSET {1, 4, 99}

LLMReplies ==
    { [raised |-> TRUE, json |-> "invalid", found_name |-> None, matching_ids |-> {}],
      [raised |-> FALSE, json |-> "invalid", found_name |-> None, matching_ids |-> {}],
      [raised |-> FALSE, json |-> "other", found_name |-> None, matching_ids |-> {}] }
    \cup { [raised |-> FALSE, json |-> "dict", found_name |-> n, matching_ids |-> ids] :
             n \in FoundNames, ids \in ReplyIds }

\* a result that takes the whole roster as candidates, whatever the ids
process_name_mention_unfiltered(reply, user_names) ==
    IF reply.raised THEN NoMatch
    ELSE IF reply.json # "dict" THEN NoMatch
    ELSE IF Falsy(reply.found_name) THEN NoMatch
    ELSE [ found_name |-> reply.found_name, matching_users |-> user_names ]

\* llm_service.py:14-104
process_name_mention(reply, user_names) ==
    IF reply.raised THEN NoMatch
    ELSE IF reply.json # "dict" THEN NoMatch
    ELSE IF Falsy(reply.found_name) THEN NoMatch
    ELSE [ found_name |-> reply.found_name,
           matching_users |->
               SelectSeq(user_names, LAMBDA u : u[3] \in reply.matching_ids) ]

\* user_service.py:27-31, once the roster is read
process_chat_message(db, chat_id, reply) ==
    LET valid_users == ValidUsers(ChatUsers(db, chat_id)) IN
    IF valid_users = << >> THEN NoMatch
    ELSE process_name_mention(reply, valid_users)

\* the matching service was asked and answered with a name and with no
\* identifier of a participant of the chat
NoCandidate(db, chat_id, reply) ==
    /\ \E i \in 1..Len(ChatUsers(db, chat_id)) :
          ChatUsers(db, chat_id)[i][1] # None /\ ChatUsers(db, chat_id)[i][2] # None
    /\ ~reply.raised
    /\ reply.json = "dict"
    /\ reply.found_name # None
    /\ \A i \in 1..Len(ChatUsers(db, chat_id)) :
          ChatUsers(db, chat_id)[i][3] \notin reply.matching_ids

\* whether process_chat_message reaches the matching service
CallsLLM(db, chat_id) == ValidUsers(ChatUsers(db, chat_id)) # << >>

(***************************************************************************)
(* State.                                                                  *)
(***************************************************************************)
VARIABLES
    variant,     \* "bot" (bot.py) or "handlers" (handlers/voice.py)
    db,          \* the directory: users, chats, user_chats, usages
    pc,          \* where handle_voice stands
    failStage,   \* why the pipeline left its normal path ("none" if not)
    result,      \* what get_transcription_result returned
    hmatch,      \* found_name, matching_users of handlers/voice.py:201
    idx,         \* parts sent so far
    procMsg,     \* processing_msg: the processing indicator
    notices,     \* failure notices that became visible, oldest first
    sent,        \* transcript messages delivered, oldest first
    calls,       \* requests made to each remote collaborator
    http,        \* the last exchange of each remote stage
    queries,     \* callback queries in flight to handle_user_selection
    rw,          \* a call of replace_name_with_username on its own
    pm,          \* a call of process_chat_message on its own
    loop,        \* the event loop with several voice messages in progress
    upserts      \* calls of the upsert functions on their own, in progress

vars == << variant, db, pc, failStage, result, hmatch, idx, procMsg, notices,
           sent, calls, http, queries, rw, pm, loop, upserts >>

\* no voice message in the event loop, no upsert made
NoLoop == [ used |-> FALSE ]
NoUpsert == [ used |-> FALSE ]

NoCall == [ text |-> "", found_name |-> "", username |-> "", out |-> "",
            returned |-> FALSE ]

NoMatchCall == [ reply |-> [raised |-> TRUE, json |-> "invalid",
                            found_name |-> None, matching_ids |-> {}],
                 called |-> FALSE, user_names |-> << >>, out |-> NoMatch,
                 returned |-> FALSE ]

InitialDb(k) ==
    [ users      |-> SubSeq(Directory, 1, k),
      chats      |-> IF k > 0
                     THEN << [id |-> 1, tg_chat_id |-> ChatId, name |-> ChatName] >>
                     ELSE << >>,
      user_chats |-> [ i \in 1..k |-> [id |-> i, user |-> i, chat |-> 1] ],
      usages     |-> << >> ]

NotPicked == [ handled |-> FALSE, found_name |-> None, username |-> None,
               before |-> "", cause |-> "none",
               applied |-> 0 ]       \* selections whose edit was accepted

\* a transcript message as message.reply / message.answer creates it; the
\* fields after reply_to record what was done to it
NewMsg(text, payload, reply_to) ==
    [ text |-> text, reply_markup |-> << >>, reply_to |-> reply_to,
      payload |-> payload,      \* the part the text was built from
      edited  |-> "no",         \* "auto" / "choice": the accepted resolution edit
      match   |-> NoMatch,      \* the match that edit was made for
      picked  |-> NotPicked,    \* the last selection handled for it
      failed  |-> FALSE,        \* process_name_mentions caught an exception
      nocand  |-> FALSE ]       \* a name was found for it, with no candidate

Init ==
    /\ variant \in {"bot", "handlers"}
    /\ db \in { InitialDb(k) : k \in 0..Len(Directory) }
    /\ pc = IF variant = "bot" THEN "metadata" ELSE "reply"
    /\ failStage = "none"
    /\ result = EmptyDict
    /\ hmatch = NoMatch
    /\ idx = 0
    /\ procMsg = [exists |-> FALSE, text |-> ""]
    /\ notices = << >>
    /\ sent = << >>
    /\ calls = [upload |-> 0, submit |-> 0, poll |-> 0, roster |-> 0, llm |-> 0]
    /\ http = [upload |-> NoExchange, submit |-> NoExchange, poll |-> NoExchange]
    /\ queries = {}
    /\ rw = NoCall
    /\ pm = NoMatchCall
    /\ loop = NoLoop
    /\ upserts = NoUpsert

\* the outcomes of an edit of the processing indicator: refused once it is gone
EditOutcomes == IF procMsg.exists THEN BOOLEAN ELSE {FALSE}

\* an exception reaches `except Exception` of handle_voice (bot.py:410)
Raise(cause) ==
    /\ pc' = "except"
    /\ failStage' = IF failStage = "none" THEN cause ELSE failStage

\* a stage notice after which handle_voice does not return
NotifyNoReturn(cause, text, ok) ==
    /\ failStage' = cause
    /\ pc' = "except"
    /\ IF ok
       THEN /\ procMsg' = [procMsg EXCEPT !.text = text]
            /\ notices' = Append(notices, [via |-> "edit", text |-> text])
       ELSE UNCHANGED << procMsg, notices >>

\* a stage-specific failure notice is put on the indicator, or the edit raises
Notify(cause, text, ok) ==
    /\ failStage' = cause
    /\ IF ok
       THEN /\ procMsg' = [procMsg EXCEPT !.text = text]
            /\ notices' = Append(notices, [via |-> "edit", text |-> text])
            /\ pc' = "done"
       ELSE /\ pc' = "except"
            /\ UNCHANGED << procMsg, notices >>

(***************************************************************************)
(* handle_voice                                                            *)
(***************************************************************************)
\* bot.py:283-292: the sender and the chat are saved; a failure is logged
handle_voice_metadata ==
    /\ pc = "metadata"
    /\ variant = "bot"
    /\ \E dbOk \in BOOLEAN : db' = IF dbOk THEN SaveSender(db) ELSE db
    /\ pc' = "reply"
    /\ UNCHANGED << variant, failStage, result, hmatch, idx, procMsg, notices,
                    sent, calls, queries, http, rw, pm, loop,
                    upserts >>

\* bot.py:294: the indicator is created, outside the try block
handle_voice_reply ==
    /\ pc = "reply"
    /\ \E ok \in BOOLEAN :
         IF ok
         THEN /\ procMsg' = [exists |-> TRUE, text |-> TextStart]
              /\ pc' = "fetch"
              /\ UNCHANGED failStage
         ELSE /\ pc' = "raised"
              /\ failStage' = "telegram"
              /\ UNCHANGED procMsg
    /\ UNCHANGED << variant, db, result, hmatch, idx, notices, sent, calls,
                    queries, http, rw, pm, loop,
                    upserts >>

\* bot.py:298-317: the file is fetched from the messaging platform
handle_voice_fetch ==
    /\ pc = "fetch"
    /\ \E voice \in BOOLEAN, r \in {"ok", "edit1", "file", "edit2"} :
         /\ r = "edit1" => voice
         /\ procMsg' = [procMsg EXCEPT !.text =
                          IF r = "ok" THEN TextUploading
                          ELSE IF voice /\ r # "edit1" THEN TextDownloading
                          ELSE procMsg.text]
         /\ IF r = "ok" THEN pc' = "upload" /\ UNCHANGED failStage
            ELSE Raise(IF r = "file" THEN "fetch" ELSE "telegram")
    /\ UNCHANGED << variant, db, result, hmatch, idx, notices, sent, calls,
                    queries, http, rw, pm, loop,
                    upserts >>

\* bot.py:318-328
handle_voice_upload ==
    /\ pc = "upload"
    /\ calls' = [calls EXCEPT !.upload = @ + 1]
    /\ \E x \in UploadExchanges, ok \in EditOutcomes :
         LET upload_response == upload_audio_to_gladia(x) IN
         /\ http' = [http EXCEPT !.upload = x]
         /\ IF ~upload_response.isdict
            THEN Raise("upload") /\ UNCHANGED << procMsg, notices >>
            ELSE IF NoAudioUrl(upload_response)
            THEN Notify("upload", NoticeUpload, ok)
            ELSE IF ok
            THEN /\ procMsg' = [procMsg EXCEPT !.text = TextSubmitting]
                 /\ pc' = "submit"
                 /\ UNCHANGED << failStage, notices >>
            ELSE Raise("telegram") /\ UNCHANGED << procMsg, notices >>
    /\ UNCHANGED << variant, db, result, hmatch, idx, sent, queries, rw, pm, loop,
                    upserts >>

\* bot.py:329-339
handle_voice_submit ==
    /\ pc = "submit"
    /\ calls' = [calls EXCEPT !.submit = @ + 1]
    /\ \E x \in SubmitExchanges, ok \in EditOutcomes :
         LET transcription_response == transcribe_audio(x) IN
         /\ http' = [http EXCEPT !.submit = x]
         /\ IF ~transcription_response.isdict
            THEN Raise("submit") /\ UNCHANGED << procMsg, notices >>
            ELSE IF NoResultUrl(transcription_response)
            THEN Notify("submit", NoticeSubmit, ok)
            ELSE IF ok
            THEN /\ procMsg' = [procMsg EXCEPT !.text = TextWaiting]
                 /\ pc' = "poll"
                 /\ UNCHANGED << failStage, notices >>
            ELSE Raise("telegram") /\ UNCHANGED << procMsg, notices >>
    /\ UNCHANGED << variant, db, result, hmatch, idx, sent, queries, rw, pm, loop,
                    upserts >>

\* a poll loop that gives up asking after MaxPolls requests
handle_voice_poll_bounded ==
    /\ pc = "poll"
    /\ calls.poll < MaxPolls
    /\ calls' = [calls EXCEPT !.poll = @ + 1]
    /\ \E x \in PollExchanges :
         /\ http' = [http EXCEPT !.poll = x]
         /\ CASE PollVerdict(x) = "return" ->
                /\ result' = x.d
                /\ pc' = "result"
                /\ UNCHANGED failStage
           [] PollVerdict(x) = "raise" ->
                /\ Raise("poll")
                /\ UNCHANGED result
           [] OTHER ->
                UNCHANGED << result, pc, failStage >>
    /\ UNCHANGED << variant, db, hmatch, idx, procMsg, notices, sent, queries, rw, pm, loop,
                    upserts >>

\* bot.py:340 and 160-195: one request of get_transcription_result; the loop
\* has no attempt bound, calls.poll counts the requests up to MaxPolls
handle_voice_poll ==
    /\ pc = "poll"
    /\ calls' = [calls EXCEPT !.poll = Min(@ + 1, MaxPolls)]
    /\ \E x \in PollExchanges :
         /\ http' = [http EXCEPT !.poll = x]
         /\ CASE PollVerdict(x) = "return" ->
                /\ result' = x.d
                /\ pc' = "result"
                /\ UNCHANGED failStage
           [] PollVerdict(x) = "raise" ->
                /\ Raise("poll")
                /\ UNCHANGED result
           [] OTHER ->
                UNCHANGED << result, pc, failStage >>
    /\ UNCHANGED << variant, db, hmatch, idx, procMsg, notices, sent, queries, rw, pm, loop,
                    upserts >>

\* a result step that records the usage before it looks for the transcription
handle_voice_result_recording ==
    /\ pc = "result"
    /\ IF HasTranscription(result)
       THEN /\ pc' = IF variant = "bot" THEN "usage" ELSE "match"
            /\ UNCHANGED << failStage, procMsg, notices, db >>
       ELSE /\ db' = RecordUsage(db, 0)
            /\ \E ok \in EditOutcomes : Notify("notext", NoticeNoText, ok)
    /\ UNCHANGED << variant, result, hmatch, idx, sent, calls, queries, http, rw, pm,
                    loop, upserts >>

\* bot.py:346-348 and 402-408
handle_voice_result ==
    /\ pc = "result"
    /\ IF HasTranscription(result)
       THEN /\ pc' = IF variant = "bot" THEN "usage" ELSE "match"
            /\ UNCHANGED << failStage, procMsg, notices >>
       ELSE \E ok \in EditOutcomes : Notify("notext", NoticeNoText, ok)
    /\ UNCHANGED << variant, db, result, hmatch, idx, sent, calls, queries, http, rw, pm, loop,
                    upserts >>

\* handlers/voice.py:201: the matching pass, before anything is delivered
handle_voice_match ==
    /\ pc = "match"
    /\ variant = "handlers"
    /\ \E rosterOk \in BOOLEAN, reply \in LLMReplies :
         IF rosterOk
         THEN /\ hmatch' = process_chat_message(db, ChatId, reply)
              /\ calls' = [calls EXCEPT !.roster = @ + 1,
                             !.llm = @ + (IF CallsLLM(db, ChatId) THEN 1 ELSE 0)]
              /\ pc' = "usage"
              /\ UNCHANGED failStage
         ELSE /\ calls' = [calls EXCEPT !.roster = @ + 1]
              /\ Raise("roster")
              /\ UNCHANGED hmatch
    /\ UNCHANGED << variant, db, result, idx, procMsg, notices, sent, queries, http, rw, pm, loop,
                    upserts >>

\* bot.py:354-375: usage is recorded; a failure is logged
handle_voice_usage ==
    /\ pc = "usage"
    /\ \E dbOk \in BOOLEAN :
         db' = IF dbOk THEN RecordUsage(db, AudioDuration(result)) ELSE db
    /\ pc' = "delete"
    /\ UNCHANGED << variant, failStage, result, hmatch, idx, procMsg, notices,
                    sent, calls, queries, http, rw, pm, loop,
                    upserts >>

\* bot.py:377-381: the indicator is deleted; a failure is logged
handle_voice_delete ==
    /\ pc = "delete"
    /\ \E ok \in BOOLEAN : procMsg' = [procMsg EXCEPT !.exists = ~ok]
    /\ pc' = "send"
    /\ UNCHANGED << variant, db, failStage, result, hmatch, idx, notices, sent,
                    calls, queries, http, rw, pm, loop,
                    upserts >>

\* the parts of the transcript being delivered
parts == Parts(FullText(result))

NextAfterPart(sentSoFar) == IF sentSoFar = Len(parts) THEN "done" ELSE "send"

\* bot.py:384-401: message.reply for the first part, message.answer for the
\* others; in bot.py process_name_mentions follows each one
handle_voice_send ==
    /\ pc = "send"
    /\ \E ok \in BOOLEAN :
         IF ok
         THEN /\ sent' = Append(sent, NewMsg(Decorate(FullText(result), idx + 1),
                                             parts[idx + 1], idx = 0))
              /\ idx' = idx + 1
              /\ pc' = IF variant = "bot" THEN "names" ELSE NextAfterPart(idx + 1)
              /\ UNCHANGED failStage
         ELSE /\ Raise("telegram")
              /\ UNCHANGED << sent, idx >>
    /\ UNCHANGED << variant, db, result, hmatch, procMsg, notices, calls, queries, http, rw, pm, loop,
                    upserts >>

\* Telegram refuses an edit that changes neither the text nor the keyboard
Modifies(msg, text, markup) == msg.text # text \/ msg.reply_markup # markup

\* a post-processing step whose roster failure is not caught
process_name_mentions_uncaught ==
    /\ pc = "names"
    /\ variant = "bot"
    /\ \E rosterOk \in BOOLEAN :
         /\ calls' = [calls EXCEPT !.roster = @ + 1]
         /\ sent' = [sent EXCEPT ![Len(sent)].failed = ~rosterOk]
         /\ IF rosterOk
            THEN pc' = NextAfterPart(idx) /\ UNCHANGED failStage
            ELSE Raise("roster")
    /\ UNCHANGED << variant, db, result, hmatch, idx, procMsg, notices,
                    queries, http, rw, pm, loop,
                    upserts >>

\* bot.py:446-484, for the message just sent (text = its part)
process_name_mentions ==
    /\ pc = "names"
    /\ variant = "bot"
    /\ \E rosterOk \in BOOLEAN, reply \in LLMReplies, ok \in BOOLEAN :
         LET j    == Len(sent)
             text == sent[j].payload
             m    == IF rosterOk THEN process_chat_message(db, ChatId, reply)
                     ELSE NoMatch
             one  == m.matching_users[1]
             new_text == replace_name_with_username(text, m.found_name, one[2])
             got  == [sent[j] EXCEPT
                        !.nocand = rosterOk /\ NoCandidate(db, ChatId, reply)]
             seen == [got EXCEPT !.match = m]
             caught == [got EXCEPT !.failed = TRUE]
         IN
         /\ calls' = [calls EXCEPT !.roster = @ + 1,
                        !.llm = @ + (IF rosterOk /\ CallsLLM(db, ChatId) THEN 1 ELSE 0)]
         /\ sent' = [sent EXCEPT ![j] =
              IF ~rosterOk THEN caught
              ELSE IF Falsy(m.found_name) \/ m.matching_users = << >> THEN got
              ELSE IF Len(m.matching_users) = 1
              THEN IF ok /\ Modifies(sent[j], new_text, << >>)
                   THEN [seen EXCEPT !.text = new_text, !.edited = "auto"]
                   ELSE caught
              ELSE IF ok
                   THEN [seen EXCEPT !.text = text, !.edited = "choice",
                           !.reply_markup = Keyboard(m.found_name, m.matching_users)]
                   ELSE caught]
    /\ pc' = NextAfterPart(idx)
    /\ UNCHANGED << variant, db, failStage, result, hmatch, idx, procMsg, notices,
                    queries, http, rw, pm, loop,
                    upserts >>

\* an except block that logs the error and shows nothing
handle_voice_except_silent ==
    /\ pc = "except"
    /\ pc' = "done"
    /\ UNCHANGED << variant, db, failStage, result, hmatch, idx, procMsg, notices,
                    sent, calls, queries, http, rw, pm, loop,
                    upserts >>

\* bot.py:410-419: the generic notice, on the indicator or else as a reply
handle_voice_except ==
    /\ pc = "except"
    /\ \E okEdit \in EditOutcomes, okReply \in BOOLEAN :
         IF okEdit
         THEN /\ procMsg' = [procMsg EXCEPT !.text = NoticeGeneric]
              /\ notices' = Append(notices, [via |-> "edit", text |-> NoticeGeneric])
              /\ pc' = "done"
         ELSE IF okReply
         THEN /\ notices' = Append(notices, [via |-> "reply", text |-> NoticeGeneric])
              /\ pc' = "done"
              /\ UNCHANGED procMsg
         ELSE /\ pc' = "raised"
              /\ UNCHANGED << procMsg, notices >>
    /\ UNCHANGED << variant, db, failStage, result, hmatch, idx, sent, calls,
                    queries, http, rw, pm, loop,
                    upserts >>

(***************************************************************************)
(* The choice prompt.                                                      *)
(***************************************************************************)
\* the queries in flight that differ from q in their id at most
Same(q) == { r \in queries : [r EXCEPT !.id = q.id] = q }

\* of the queries that differ in their id only, the one taken first
Foremost(q) == \A r \in Same(q) : r.id <= q.id

\* the callback query of option k of message j as displayed: the option's
\* data and the message; `id` tells apart the queries of repeated presses
Query(j, k) ==
    [ msg |-> j, id |-> 1,
      data |-> sent[j].reply_markup[k].callback_data,
      text |-> sent[j].text,
      found_name |-> sent[j].reply_markup[k].found_name,
      username   |-> sent[j].reply_markup[k].username ]

\* the requester presses option k of message j, no query of that option
\* being in flight
press ==
    /\ Cardinality(queries) < MaxClicks
    /\ \E j \in 1..Len(sent) :
         \E k \in 1..Len(sent[j].reply_markup) :
            /\ Same(Query(j, k)) = {}
            /\ queries' = queries \cup {Query(j, k)}
    /\ UNCHANGED << variant, db, pc, failStage, result, hmatch, idx, procMsg,
                    notices, sent, calls, http, rw, pm, loop,
                    upserts >>

\* the requester presses an option again before its query is handled
press_again ==
    /\ Cardinality(queries) < MaxClicks
    /\ \E j \in 1..Len(sent) :
         \E k \in 1..Len(sent[j].reply_markup) :
            /\ Same(Query(j, k)) # {}
            /\ queries' = queries \cup
                  {[Query(j, k) EXCEPT !.id = Cardinality(Same(Query(j, k))) + 1]}
    /\ UNCHANGED << variant, db, pc, failStage, result, hmatch, idx, procMsg,
                    notices, sent, calls, http, rw, pm, loop,
                    upserts >>

\* bot.py:422-443
handle_user_selection ==
    /\ \E q \in queries, ok \in BOOLEAN :
         /\ StartsWith(q.data, CallbackPrefix)
         /\ Foremost(q)
         /\ queries' = queries \ {q}
         /\ LET j  == q.msg
                new_text == replace_name_with_username(
                               q.text, Decode(q.data).found_name,
                               Decode(q.data).username)
                cause == IF ~DecodeOk(q.data) THEN "decode"
                         ELSE IF ok /\ Modifies(sent[j], new_text, << >>) THEN "ok"
                         ELSE "telegram"
                note == [ handled |-> TRUE, found_name |-> q.found_name,
                          username |-> q.username, before |-> q.text,
                          cause |-> cause,
                          applied |-> sent[j].picked.applied
                                        + (IF cause = "ok" THEN 1 ELSE 0) ]
            IN  sent' = [sent EXCEPT ![j] =
                   IF cause = "ok"
                   THEN [@ EXCEPT !.text = new_text, !.reply_markup = << >>,
                                  !.picked = note]
                   ELSE [@ EXCEPT !.picked = note]]
    /\ UNCHANGED << variant, db, pc, failStage, result, hmatch, idx, procMsg,
                    notices, calls, http, rw, pm, loop,
                    upserts >>

Next ==
    \/ handle_voice_metadata
    \/ handle_voice_reply
    \/ handle_voice_fetch
    \/ handle_voice_upload
    \/ handle_voice_submit
    \/ handle_voice_poll
    \/ handle_voice_result
    \/ handle_voice_match
    \/ handle_voice_usage
    \/ handle_voice_delete
    \/ handle_voice_send
    \/ process_name_mentions
    \/ handle_voice_except
    \/ press
    \/ handle_user_selection

Spec == Init /\ [][Next]_vars

(***************************************************************************)
(* The bot as main() starts it (bot.py:487-507): the dispatcher polls with *)
(* allowed_updates, and the messaging platform hands over only updates of  *)
(* the listed kinds.  A voice message is a "message" update; a pressed     *)
(* option is a "callback_query" update.                                    *)
(***************************************************************************)
AllowedUpdates == {"message", "edited_message"}      \* bot.py:502

\* the fate of a pressed option under dp.start_polling: handed to
\* handle_user_selection when callback queries are among the allowed
\* updates, otherwise never handed over (the press ends without an answer)
start_polling ==
    IF "callback_query" \in AllowedUpdates
    THEN handle_user_selection
    ELSE /\ \E q \in queries :
              /\ Foremost(q)
              /\ queries' = queries \ {q}
              /\ sent' = [sent EXCEPT ![q.msg].picked =
                            [ handled |-> FALSE, found_name |-> q.found_name,
                              username |-> q.username, before |-> q.text,
                              cause |-> "dropped",
                              applied |-> sent[q.msg].picked.applied ]]
         /\ UNCHANGED << variant, db, pc, failStage, result, hmatch, idx,
                         procMsg, notices, calls, http, rw, pm, loop,
                    upserts >>

InitMain == Init /\ variant = "bot"

NextMain ==
    \/ handle_voice_metadata
    \/ handle_voice_reply
    \/ handle_voice_fetch
    \/ handle_voice_upload
    \/ handle_voice_submit
    \/ handle_voice_poll
    \/ handle_voice_result
    \/ handle_voice_usage
    \/ handle_voice_delete
    \/ handle_voice_send
    \/ process_name_mentions
    \/ handle_voice_except
    \/ press
    \/ start_polling

SpecMain == InitMain /\ [][NextMain]_vars

\* the bot of bot.py with its handlers dispatched directly, serving a chat
\* whose whole directory is known, the requester pressing options repeatedly
InitSelect == Init /\ variant = "bot" /\ db = InitialDb(Len(Directory))

NextSelect == Next \/ press_again

SpecSelect == InitSelect /\ [][NextSelect]_vars

\* handle_voice alone, from the voice message to its return
NextVoice ==
    \/ handle_voice_metadata
    \/ handle_voice_reply
    \/ handle_voice_fetch
    \/ handle_voice_upload
    \/ handle_voice_submit
    \/ handle_voice_poll
    \/ handle_voice_result
    \/ handle_voice_match
    \/ handle_voice_usage
    \/ handle_voice_delete
    \/ handle_voice_send
    \/ process_name_mentions
    \/ handle_voice_except

\* the event loop resumes the handler whenever the call it awaits has
\* returned, and the job does not answer with a non-terminal status for ever
SpecLive ==
    /\ Init
    /\ [][NextVoice]_vars
    /\ WF_vars(NextVoice /\ ~(pc = "poll" /\ pc' = "poll"))

(***************************************************************************)
(* Several voice messages in one event loop: each handle_voice is a task   *)
(* that runs from one call to the next; a task in an awaited call is        *)
(* suspended, a task in a plain (synchronous) call keeps the thread.        *)
(***************************************************************************)
Tasks == 1..MaxTasks

\* the calls handle_voice awaits: upload_audio_to_gladia (session.post),
\* transcribe_audio (session.post), session.get and asyncio.sleep of
\* get_transcription_result, message.reply / message.answer
Awaited == {"upload", "submit", "poll", "sleep", "send"}

\* where a task goes when the poll request returned r
AfterPollLenient(v, r) ==
    CASE r = "pending" -> "sleep"
      [] r \in {"done", "notext"} -> IF v = "bot" THEN "usage" ELSE "names"
      [] OTHER -> "failed"

\* bot.py:170-192 and 346, handlers/voice.py:196: "pending" is a status other
\* than done or error, "notext" a done result without a transcription
AfterPoll(v, r) ==
    CASE r = "pending" -> "sleep"
      [] r = "done" -> IF v = "bot" THEN "usage" ELSE "names"
      [] OTHER -> "failed"

NewTask == [ at |-> "upload", st |-> "todo", polls |-> 0, polled |-> "none",
             usage |-> "none" ]

InitLoop ==
    /\ variant \in {"bot", "handlers"}
    /\ db = InitialDb(0)
    /\ pc = "idle"
    /\ failStage = "none"
    /\ result = EmptyDict
    /\ hmatch = NoMatch
    /\ idx = 0
    /\ procMsg = [exists |-> FALSE, text |-> ""]
    /\ notices = << >>
    /\ sent = << >>
    /\ calls = [upload |-> 0, submit |-> 0, poll |-> 0, roster |-> 0, llm |-> 0]
    /\ http = [upload |-> NoExchange, submit |-> NoExchange, poll |-> NoExchange]
    /\ queries = {}
    /\ rw = NoCall
    /\ pm = NoMatchCall
    /\ upserts = NoUpsert
    /\ loop = [ used |-> TRUE,
                blocked |-> 0,                     \* the task inside a plain call
                task |-> [t \in Tasks |-> NewTask],
                rows |-> [t \in Tasks |-> 0] ]     \* Usage rows per message

\* the task runs up to its next call: an awaited call suspends it, the
\* usage block (bot.py:353-375) is done at once, the matching call
\* (bot.py:450, handlers/voice.py:201; llm_service.py:39) is entered
loop_call(t) ==
    /\ loop.used
    /\ loop.blocked = 0
    /\ loop.task[t].st = "todo"
    /\ loop.task[t].at \notin {"done", "failed"}
    /\ LET at == loop.task[t].at IN
       IF at \in Awaited
       THEN loop' = [loop EXCEPT !.task[t].st = "wait"]
       ELSE IF at = "usage"
       THEN \E dbOk \in BOOLEAN :
              loop' = [loop EXCEPT
                 !.rows[t] = IF dbOk THEN @ + 1 ELSE @,
                 !.task[t].usage = IF dbOk THEN "ok" ELSE "failed",
                 !.task[t].at = "send"]
       ELSE loop' = [loop EXCEPT !.task[t].st = "block", !.blocked = t]
    /\ UNCHANGED << variant, db, pc, failStage, result, hmatch, idx, procMsg,
                    notices, sent, calls, http, queries, rw, pm, upserts >>

\* the awaited call of a suspended task has returned and the loop runs the
\* task again
loop_resume(t) ==
    /\ loop.used
    /\ loop.blocked = 0
    /\ loop.task[t].st = "wait"
    /\ LET at == loop.task[t].at IN
       \E ok \in BOOLEAN, r \in {"done", "notext", "pending", "failed"} :
          /\ at # "poll" => r = "done"
          /\ (at = "poll" /\ r = "pending") => loop.task[t].polls < MaxPolls
          /\ loop' = [loop EXCEPT !.task[t] =
               CASE at = "upload" ->
                      [@ EXCEPT !.st = "todo", !.at = IF ok THEN "submit" ELSE "failed"]
                 [] at = "submit" ->
                      [@ EXCEPT !.st = "todo", !.at = IF ok THEN "poll" ELSE "failed"]
                 [] at = "poll" ->
                      [@ EXCEPT !.st = "todo", !.at = AfterPoll(variant, r),
                                !.polls = IF r = "pending" THEN @ + 1 ELSE @,
                                !.polled = r]
                 [] at = "sleep" ->
                      [@ EXCEPT !.st = "todo", !.at = "poll"]
                 [] OTHER ->
                      [@ EXCEPT !.st = "todo",
                                !.at = IF ~ok THEN "failed"
                                       ELSE IF variant = "bot" THEN "names"
                                       ELSE "done"]]
    /\ UNCHANGED << variant, db, pc, failStage, result, hmatch, idx, procMsg,
                    notices, sent, calls, http, queries, rw, pm, upserts >>

\* the matching call returns: bot.py catches whatever it raised
\* (bot.py:482-484), handlers/voice.py lets a failed roster read through
loop_return(t) ==
    /\ loop.used
    /\ loop.blocked = t
    /\ \E ok \in BOOLEAN :
          loop' = [loop EXCEPT
             !.blocked = 0,
             !.task[t].st = "todo",
             !.task[t].at = IF variant = "bot" THEN "done"
                            ELSE IF ok THEN "usage" ELSE "failed"]
    /\ UNCHANGED << variant, db, pc, failStage, result, hmatch, idx, procMsg,
                    notices, sent, calls, http, queries, rw, pm, upserts >>

NextLoop == \E t \in Tasks : loop_call(t) \/ loop_resume(t) \/ loop_return(t)

SpecLoop == InitLoop /\ [][NextLoop]_vars

(***************************************************************************)
(* The upsert functions of models.py on their own, called by several       *)
(* callers; a call is a read of the row followed, when no row was found,   *)
(* by the insert.                                                          *)
(***************************************************************************)
Callers == 1..MaxCallers

\* message.from_user as the calls may carry it: the sender, the sender
\* after a change of name and handle, and somebody else
TgUsers ==
    { Sender,
      [ id |-> 101, first_name |-> "Kostya", last_name |-> "Petrov",
        username |-> "kostya_new" ],
      [ id |-> 102, first_name |-> "Sasha", last_name |-> "Ivanov",
        username |-> None ] }

\* message.chat as the calls may carry it: the chat, and the chat renamed
TgChats == { [id |-> ChatId, title |-> ChatName],
             [id |-> ChatId, title |-> "family, new"] }

Call(op, id, first_name, last_name, username, title, user, chat, phase) ==
    [ op |-> op, id |-> id, first_name |-> first_name, last_name |-> last_name,
      username |-> username, title |-> title, user |-> user, chat |-> chat,
      phase |-> phase ]

Idle == Call("none", 0, None, None, None, None, 0, 0, "idle")

\* the row the call is about is in its table
Found(d, call) ==
    CASE call.op = "user" -> HasUser(d.users, call.id)
      [] call.op = "chat" -> HasChat(d.chats, call.id)
      [] OTHER -> HasUserChat(d.user_chats, call.user, call.chat)

\* the calls that can be made: upsert_user(tg_user), upsert_chat(message),
\* upsert_user_chat(user, chat) for rows read from the tables
UpsertCalls(d) ==
    { Call("user", u.id, u.first_name, u.last_name, u.username, None, 0, 0, "get") :
        u \in TgUsers }
    \cup { Call("chat", c.id, None, None, None, c.title, 0, 0, "get") :
             c \in TgChats }
    \cup { Call("user_chat", 0, None, None, None, None, d.users[i].id, d.chats[j].id, "get") :
             i \in 1..Len(d.users), j \in 1..Len(d.chats) }

InitDb ==
    /\ variant = "bot"
    /\ db = InitialDb(0)
    /\ pc = "idle"
    /\ failStage = "none"
    /\ result = EmptyDict
    /\ hmatch = NoMatch
    /\ idx = 0
    /\ procMsg = [exists |-> FALSE, text |-> ""]
    /\ notices = << >>
    /\ sent = << >>
    /\ calls = [upload |-> 0, submit |-> 0, poll |-> 0, roster |-> 0, llm |-> 0]
    /\ http = [upload |-> NoExchange, submit |-> NoExchange, poll |-> NoExchange]
    /\ queries = {}
    /\ rw = NoCall
    /\ pm = NoMatchCall
    /\ loop = NoLoop
    /\ upserts = [ used |-> TRUE,
                   slot |-> [c \in Callers |-> Idle],
                   last |-> Idle,          \* the call that returned last
                   conflict |-> FALSE ]    \* an insert met a row already there

\* models.py:62, 82, 99: the read that opens the call
upsert_get(c) ==
    /\ upserts.used
    /\ upserts.slot[c] = Idle
    /\ \E call \in UpsertCalls(db) :
          upserts' = [upserts EXCEPT !.slot[c] =
             [call EXCEPT !.phase = IF Found(db, call) THEN "found" ELSE "missing"]]
    /\ UNCHANGED << variant, db, pc, failStage, result, hmatch, idx, procMsg,
                    notices, sent, calls, http, queries, rw, pm, loop >>

\* models.py:63, 72-76, 83, 90-94, 99-100: the row found is returned as it
\* is; otherwise the insert is made and the row is read and returned
upsert_return(c) ==
    /\ upserts.used
    /\ upserts.slot[c] # Idle
    /\ LET call == upserts.slot[c]
           tg_user == [ id |-> call.id, first_name |-> call.first_name,
                        last_name |-> call.last_name, username |-> call.username ]
       IN
       /\ db' = IF call.phase = "found" THEN db
                ELSE CASE call.op = "user" ->
                            [db EXCEPT !.users = InsertUser(@, tg_user)]
                       [] call.op = "chat" ->
                            [db EXCEPT !.chats = InsertChat(@, call.id, call.title)]
                       [] OTHER ->
                            [db EXCEPT !.user_chats =
                                CreateUserChat(@, call.user, call.chat)]
       /\ upserts' = [upserts EXCEPT
             !.slot[c] = Idle,
             !.last = call,
             !.conflict = @ \/ (call.phase = "missing" /\ Found(db, call))]
    /\ UNCHANGED << variant, pc, failStage, result, hmatch, idx, procMsg,
                    notices, sent, calls, http, queries, rw, pm, loop >>

NextDb == \E c \in Callers : upsert_get(c) \/ upsert_return(c)

SpecDb == InitDb /\ [][NextDb]_vars

(***************************************************************************)
(* replace_name_with_username on its own: the arguments are drawn from all *)
(* strings up to MaxLen over a small alphabet (letters in both cases,      *)
(* characters of the pattern's class, and ';' and ':' outside it).         *)
(***************************************************************************)
TextAlphabet == {"K", "k", "o", " ", ",", "\n", ";"}
NameAlphabet == {"K", "k", "o"}

RECURSIVE Words(_, _)
Words(alphabet, n) ==
    IF n = 0 THEN {""}
    ELSE LET shorter == Words(alphabet, n - 1)
         IN  shorter \cup { w \o c : w \in shorter, c \in alphabet }

\* a found name as the matching service may word it: a mention with its comma
MentionName == "@o,"

RwTexts   == Words(TextAlphabet, MaxLen) \cup {MentionName \o ",", MentionName \o " k"}
RwNames   == (Words(NameAlphabet, 2) \ {""}) \cup {MentionName}
RwHandles == {"k9", "o"}

InitRewrite ==
    /\ variant = "bot"
    /\ db = InitialDb(0)
    /\ pc = "idle"
    /\ failStage = "none"
    /\ result = EmptyDict
    /\ hmatch = NoMatch
    /\ idx = 0
    /\ procMsg = [exists |-> FALSE, text |-> ""]
    /\ notices = << >>
    /\ sent = << >>
    /\ calls = [upload |-> 0, submit |-> 0, poll |-> 0, roster |-> 0, llm |-> 0]
    /\ http = [upload |-> NoExchange, submit |-> NoExchange, poll |-> NoExchange]
    /\ queries = {}
    /\ pm = NoMatchCall
    /\ loop = NoLoop
    /\ upserts = NoUpsert
    /\ rw \in { [ text |-> t, found_name |-> n, username |-> h, out |-> "",
                  returned |-> FALSE ] :
                t \in RwTexts, n \in RwNames, h \in RwHandles }

\* user_service.py:33-55: the call returns
rewrite_call ==
    /\ ~rw.returned
    /\ rw' = [rw EXCEPT
                !.out = replace_name_with_username(rw.text, rw.found_name,
                                                   rw.username),
                !.returned = TRUE]
    /\ UNCHANGED << variant, db, pc, failStage, result, hmatch, idx, procMsg,
                    notices, sent, calls, http, queries, pm, loop, upserts >>

NextRewrite == rewrite_call

SpecRewrite == InitRewrite /\ [][NextRewrite]_vars

(***************************************************************************)
(* process_chat_message on its own: the chat's roster is any set of the    *)
(* people of Directory, the reply of the matching service any of           *)
(* LLMReplies.                                                             *)
(***************************************************************************)
RosterDb(members) ==
    LET ids == SelectSeq([i \in 1..Len(Directory) |-> i],
                         LAMBDA i : i \in members)
    IN  [ users      |-> Directory,
          chats      |-> << [id |-> 1, tg_chat_id |-> ChatId, name |-> ChatName] >>,
          user_chats |-> [ i \in 1..Len(ids) |->
                             [id |-> i, user |-> ids[i], chat |-> 1] ],
          usages     |-> << >> ]

InitMatch ==
    /\ variant = "bot"
    /\ db \in { RosterDb(members) : members \in SUBSET (1..Len(Directory)) }
    /\ pc = "idle"
    /\ failStage = "none"
    /\ result = EmptyDict
    /\ hmatch = NoMatch
    /\ idx = 0
    /\ procMsg = [exists |-> FALSE, text |-> ""]
    /\ notices = << >>
    /\ sent = << >>
    /\ calls = [upload |-> 0, submit |-> 0, poll |-> 0, roster |-> 0, llm |-> 0]
    /\ http = [upload |-> NoExchange, submit |-> NoExchange, poll |-> NoExchange]
    /\ queries = {}
    /\ rw = NoCall
    /\ loop = NoLoop
    /\ upserts = NoUpsert
    /\ pm \in { [NoMatchCall EXCEPT !.reply = r] : r \in LLMReplies }

\* user_service.py:4-31: the call returns; `called` and `user_names` record
\* whether LLMService.process_name_mention was entered and with which roster
match_call ==
    /\ ~pm.returned
    /\ pm' = [pm EXCEPT
                !.called = CallsLLM(db, ChatId),
                !.user_names = IF CallsLLM(db, ChatId)
                               THEN ValidUsers(ChatUsers(db, ChatId))
                               ELSE << >>,
                !.out = process_chat_message(db, ChatId, pm.reply),
                !.returned = TRUE]
    /\ UNCHANGED << variant, db, pc, failStage, result, hmatch, idx, procMsg,
                    notices, sent, calls, http, queries, rw, loop, upserts >>

NextMatch == match_call

SpecMatch == InitMatch /\ [][NextMatch]_vars

(***************************************************************************)
(* Properties of the pipeline.  The premises are read from the exchanges   *)
(* recorded in `http`, not from the handler's own tests.                   *)
(***************************************************************************)
\* the upload exchange gave no audio_url: a transport exception, a status
\* other than 200, or a 200 body without (or with an empty) audio_url
UploadFailed ==
    /\ http.upload # NoExchange
    /\ \/ http.upload.raised
       \/ http.upload.status # 200
       \/ http.upload.json # "dict"
       \/ Falsy(Get(http.upload.d, "audio_url"))

\* the submit exchange gave no result_url
SubmitFailed ==
    /\ http.submit # NoExchange
    /\ \/ http.submit.raised
       \/ http.submit.status \notin {200, 201}
       \/ http.submit.json # "dict"
       \/ Falsy(Get(http.submit.d, "result_url"))

\* the last poll exchange failed: exception, bad status, unparsable body,
\* job status "error", or a done result that carries no transcription
PollFailed ==
    /\ http.poll # NoExchange
    /\ \/ http.poll.raised
       \/ http.poll.status # 200
       \/ http.poll.json # "dict"
       \/ Get(http.poll.d, "status") = "error"
       \/ /\ Get(http.poll.d, "status") = "done"
          /\ ~HasTranscription(http.poll.d)

Finished == pc \in {"done", "raised"}

C2_FailureShortCircuits ==
    /\ UploadFailed =>
          /\ calls.submit = 0 /\ calls.poll = 0
          /\ calls.roster = 0 /\ calls.llm = 0
          /\ sent = << >>
    /\ SubmitFailed =>
          /\ calls.poll = 0
          /\ calls.roster = 0 /\ calls.llm = 0
          /\ sent = << >>
    /\ PollFailed =>
          /\ calls.roster = 0 /\ calls.llm = 0
          /\ sent = << >>
          /\ pc \notin {"poll", "match", "usage", "delete", "send", "names"}

C2_Witness ==
    /\ PollFailed
    /\ Get(http.poll.d, "status") = "error"
    /\ calls.poll = 2
    /\ Finished
    /\ sent = << >>

\* C3 (as stated): every run that ends in a fatal stage failure has produced
\* exactly one failure notice, never zero and never two.
C3_ExactlyOneNotice ==
    (Finished /\ failStage \in {"upload", "submit", "poll", "notext"}) =>
        Len(notices) = 1

\* C3 (amended): a run never produces two failure notices, every notice is
\* one of the fixed texts, a run that ends in a failure has produced exactly
\* one notice when the messaging platform accepted the stage notice, the
\* generic edit or the fallback reply, and none when all of them were
\* refused (the exception then leaves handle_voice).
C3_AtMostOneNotice ==
    /\ Len(notices) <= 1
    /\ \A i \in 1..Len(notices) : notices[i].text \in FailureNotices
    /\ (pc = "done" /\ failStage # "none") => Len(notices) = 1
    /\ (pc = "done" /\ failStage = "none") => notices = << >>
    /\ pc = "raised" => notices = << >>
    /\ ~Finished => notices = << >>

C3_Witness ==
    /\ pc = "done"
    /\ failStage = "submit"
    /\ SubmitFailed
    /\ notices = << [via |-> "reply", text |-> NoticeGeneric] >>

\* the last poll exchange returned a done result that carries a transcript
PollDone ==
    /\ http.poll # NoExchange
    /\ ~http.poll.raised
    /\ http.poll.status = 200
    /\ http.poll.json = "dict"
    /\ Get(http.poll.d, "status") = "done"
    /\ HasTranscription(http.poll.d)

Transcript == FullText(http.poll.d)

Max(a, b) == IF a > b THEN a ELSE b

EndsWith(s, suffix) ==
    /\ Len(s) >= Len(suffix)
    /\ SubSeq(s, Len(s) - Len(suffix) + 1, Len(s)) = suffix

RECURSIVE Payloads(_, _)
Payloads(msgs, n) ==
    IF n = 0 THEN "" ELSE Payloads(msgs, n - 1) \o msgs[n].payload

\* the match the resolution step of message j worked with: in bot.py the one
\* recorded with the message, in handlers/voice.py the single pass on the
\* whole transcript, which concerns the first message
MatchOf(j) ==
    IF variant = "bot" THEN sent[j].match
    ELSE IF j = 1 THEN hmatch ELSE NoMatch

\* C4: whenever the poll stage returned a done result with a transcript, the
\* run delivers every part of it, however name matching ended (a refusal of
\* the delivery itself by the messaging platform apart).
C4_TranscriptDelivered ==
    (Finished /\ PollDone /\ failStage # "telegram") =>
        /\ Len(sent) = Len(Parts(Transcript))
        /\ \A j \in 1..Len(sent) : sent[j].payload = Parts(Transcript)[j]

\* the roster could not be read in handlers/voice.py and nothing was delivered
C4_RosterFailureAborts ==
    /\ variant = "handlers"
    /\ PollDone
    /\ Transcript = "Kostya, privet!"
    /\ failStage = "roster"
    /\ pc = "done"
    /\ sent = << >>
    /\ Len(notices) = 1

\* C5: when name matching returned a found name and exactly one candidate,
\* the delivered message ends up as the rewrite of its transcript text with
\* that candidate's handle (with or without the header line) and carries no
\* selectable options.
C5_SingleCandidateRewritten ==
    \A j \in 1..Len(sent) :
        LET m == MatchOf(j)
            rewritten == replace_name_with_username(
                             sent[j].payload, m.found_name, m.matching_users[1][2])
        IN  (Finished /\ ~Falsy(m.found_name) /\ Len(m.matching_users) = 1) =>
                /\ EndsWith(sent[j].text, rewritten)
                /\ sent[j].reply_markup = << >>

\* handlers/voice.py delivers "Kostya, privet!" as it was transcribed although
\* the match names the single candidate kostya99
C5_HandlersIgnoreMatch ==
    /\ variant = "handlers"
    /\ pc = "done"
    /\ hmatch.found_name = "Kostya"
    /\ Len(hmatch.matching_users) = 1
    /\ hmatch.matching_users[1][2] = "kostya99"
    /\ Len(sent) = 1
    /\ sent[1].payload = "Kostya, privet!"
    /\ sent[1].text = "* Transcript:\n\nKostya, privet!"

\* C6: for every option selected and handled (the messaging platform having
\* accepted the edit), the message text is exactly
\* replace_name_with_username(displayed text, found name, handle) for the
\* pair the option was built from.
C6_SelectionAppliesOption ==
    \A j \in 1..Len(sent) :
        LET p == sent[j].picked IN
        (p.handled /\ p.cause # "telegram") =>
            sent[j].text = replace_name_with_username(
                               p.before, p.found_name, p.username)

\* an option built from the found name "Sasha:" is selected and rejected
C6_SelectionRejected ==
    \E j \in 1..Len(sent) :
        /\ sent[j].picked.handled
        /\ sent[j].picked.cause = "decode"
        /\ sent[j].picked.found_name = "Sasha:"
        /\ sent[j].payload = "Sasha: privet"
        /\ sent[j].text = "Sasha: privet"
        /\ Len(sent[j].reply_markup) = 2

C8_CeilChunks ==
    (pc = "done" /\ failStage = "none") =>
        /\ Len(sent) = CeilDiv(Len(Transcript), ChunkSize)
        /\ Payloads(sent, Len(sent)) = Transcript

\* C8 (amended): a completed delivery of a transcript of length L consists of
\* max(1, ceil(L / 4000)) chunks, each of at most 4000 characters, whose
\* payloads concatenated in delivery order equal the transcript; an empty
\* transcript (L = 0) is delivered as one message with an empty payload.
C8_AtLeastOneChunk ==
    (pc = "done" /\ failStage = "none") =>
        /\ Len(sent) = Max(1, CeilDiv(Len(Transcript), ChunkSize))
        /\ Payloads(sent, Len(sent)) = Transcript
        /\ \A j \in 1..Len(sent) : Len(sent[j].payload) <= ChunkSize

C8_Witness ==
    /\ pc = "done"
    /\ failStage = "none"
    /\ Len(Transcript) = ChunkSize + 1
    /\ Len(sent) = 2
    /\ Len(sent[2].payload) = 1

\* C9: for a transcript delivered in several chunks the matching pass (roster
\* lookup and matching-service call) is made once, for the first chunk, and
\* every later chunk stays as delivered: no rewrite, no options.
C9_FirstChunkOnly ==
    Len(sent) >= 2 =>
        /\ calls.roster <= 1
        /\ calls.llm <= 1
        /\ \A j \in 2..Len(sent) :
              /\ sent[j].text = Decorate(Transcript, j)
              /\ sent[j].reply_markup = << >>
              /\ sent[j].edited = "no"

\* bot.py made a second matching pass, for the second chunk
C9_SecondPass ==
    /\ variant = "bot"
    /\ pc = "done"
    /\ Len(sent) = 2
    /\ calls.roster = 2
    /\ calls.llm = 2

(***************************************************************************)
(* Properties of replace_name_with_username (SpecRewrite).                 *)
(***************************************************************************)
Whitespace  == {" ", "\t", "\n"}
Punctuation == {",", ".", "!", "?", ";", ":"}

\* C10: when the text starts with the name and the name is followed by a
\* whitespace character, a punctuation character or the end of the text,
\* replace_name_with_username returns "@" and the handle followed by the rest
\* of the text after the name, unchanged.
C10_LeadingNameReplaced ==
    LET t == rw.text
        n == rw.found_name
    IN  ( /\ rw.returned
          /\ StartsWith(t, n)
          /\ \/ Len(t) = Len(n)
             \/ CharAt(t, Len(n) + 1) \in Whitespace \cup Punctuation ) =>
            rw.out = ("@" \o rw.username) \o SubSeq(t, Len(n) + 1, Len(t))

\* a name followed by ';' is left in place
C10_SemicolonNotMatched ==
    /\ rw.returned
    /\ rw.text = "K; "
    /\ rw.found_name = "K"
    /\ rw.out = "K; "

\* C11: when the text does not start with the name,
\* replace_name_with_username returns the text unchanged.
C11_NoOpWhenNotLeading ==
    (rw.returned /\ ~StartsWith(rw.text, rw.found_name)) => rw.out = rw.text

\* a text that starts with the name in the other case is rewritten
C11_OtherCaseRewritten ==
    /\ rw.returned
    /\ rw.text = "k, "
    /\ rw.found_name = "K"
    /\ ~StartsWith(rw.text, rw.found_name)
    /\ rw.out = ("@" \o rw.username) \o ", "

(***************************************************************************)
(* Properties of process_chat_message (SpecMatch).                         *)
(***************************************************************************)
\* the participants of the chat, read from the tables
Participants ==
    { u \in { db.users[i] : i \in 1..Len(db.users) } :
        \E i \in 1..Len(db.user_chats), j \in 1..Len(db.chats) :
           /\ db.user_chats[i].user = u.id
           /\ db.user_chats[i].chat = db.chats[j].id
           /\ db.chats[j].tg_chat_id = ChatId }

HasNameAndHandle(u) ==
    /\ u.firstname \notin {None, ""}
    /\ u.username \notin {None, ""}

\* C12: the matching service is entered only with a non-empty roster whose
\* entries are participants of the chat with a non-empty first name and a
\* non-empty username; when no participant has both, the result is
\* (None, []) and the service is not entered.
C12_ServiceGetsValidRoster ==
    pm.returned =>
        /\ pm.called =>
              /\ pm.user_names # << >>
              /\ \A i \in 1..Len(pm.user_names) :
                    \E u \in Participants :
                       /\ HasNameAndHandle(u)
                       /\ pm.user_names[i] = << u.firstname, u.username, u.id >>
        /\ (~\E u \in Participants : HasNameAndHandle(u)) =>
              /\ ~pm.called
              /\ pm.out = NoMatch

\* two participants, each missing a field: nobody is left and no call is made
C12_Witness ==
    /\ pm.returned
    /\ Cardinality(Participants) = 2
    /\ ~\E u \in Participants : HasNameAndHandle(u)
    /\ ~pm.called
    /\ pm.out = NoMatch
    /\ pm.reply.found_name = "Kostya"

\* C13: every candidate of the result is an entry of the roster given to the
\* matching service whose id is among the reply's matching_ids; an id of the
\* reply that is not in the roster yields no candidate, and no candidate
\* appears twice.
C13_CandidatesFromRoster ==
    pm.returned =>
        LET cands == pm.out.matching_users IN
        /\ \A i \in 1..Len(cands) :
              /\ \E k \in 1..Len(pm.user_names) : pm.user_names[k] = cands[i]
              /\ cands[i][3] \in pm.reply.matching_ids
        /\ \A i, j \in 1..Len(cands) : i # j => cands[i] # cands[j]
        /\ Len(cands) <= Cardinality(pm.reply.matching_ids)

\* the reply names a participant and an unknown id: one candidate results
C13_Witness ==
    /\ pm.returned
    /\ pm.called
    /\ pm.reply.matching_ids = {4, 99}
    /\ Len(pm.user_names) = 2
    /\ Len(pm.out.matching_users) = 1
    /\ pm.out.matching_users[1][3] = 4

(***************************************************************************)
(* Properties of the poll loop.                                            *)
(***************************************************************************)
\* the last poll request was answered with status 200
Poll200 ==
    /\ http.poll # NoExchange
    /\ ~http.poll.raised
    /\ http.poll.status = 200

\* ... and the body is a JSON object whose status is neither done nor error
PollNonTerminal ==
    /\ Poll200
    /\ http.poll.json = "dict"
    /\ Get(http.poll.d, "status") \notin {"done", "error"}

Failing == pc \in {"except", "done", "raised"}

\* C14 (as stated): a 200 poll response ends the loop if and only if its
\* status is done or error.
C14_EndsIffTerminal ==
    Poll200 =>
        (pc # "poll" <=>
            /\ http.poll.json = "dict"
            /\ Get(http.poll.d, "status") \in {"done", "error"})

\* C14 (amended): a 200 poll response whose body is a JSON object ends the
\* loop if and only if its status is done (the result is returned) or error
\* (the poll fails); with any other status, or none, the loop goes on to
\* another request.  A 200 response whose body is not a JSON object ends the
\* loop as a failure.
C14_TerminalStatuses ==
    Poll200 =>
        IF http.poll.json # "dict"
        THEN failStage = "poll" /\ Failing /\ result = EmptyDict
        ELSE /\ Get(http.poll.d, "status") = "done" =>
                  /\ pc # "poll"
                  /\ result = http.poll.d
                  /\ failStage # "poll"
             /\ Get(http.poll.d, "status") = "error" =>
                  /\ failStage = "poll" /\ Failing
                  /\ result = EmptyDict
             /\ Get(http.poll.d, "status") \notin {"done", "error"} =>
                  /\ pc = "poll"
                  /\ failStage = "none"
                  /\ result = EmptyDict

\* a 200 response without a status field: the loop goes on
C14_Witness ==
    /\ Poll200
    /\ http.poll.json = "dict"
    /\ http.poll.d = EmptyDict
    /\ pc = "poll"
    /\ calls.poll = 1

\* C15: once a poll request was answered with a status other than 200 the
\* poll has failed and the run is on its failure path with nothing
\* delivered, and no further poll request is issued.
PollNon200 ==
    /\ http.poll # NoExchange
    /\ ~http.poll.raised
    /\ http.poll.status # 200

C15_Non200IsFatal ==
    /\ [](PollNon200 =>
            /\ failStage = "poll" /\ Failing
            /\ result = EmptyDict /\ sent = << >>)
    /\ [][PollNon200 => (http' = http /\ calls' = calls)]_vars

\* a non-terminal poll, then a 500: the run ended with one failure notice
C15_Witness ==
    /\ PollNon200
    /\ http.poll.status = 500
    /\ calls.poll = 2
    /\ pc = "done"
    /\ Len(notices) = 1

\* C16: as long as the remote job answers with status 200 and a non-terminal
\* status, the poll stage has neither returned nor failed: nothing is
\* delivered, no failure notice is emitted, and another poll request is
\* always possible, however many were made (no attempt bound).
C16_PendingWhileNonTerminal ==
    PollNonTerminal =>
        /\ pc = "poll"
        /\ failStage = "none"
        /\ notices = << >>
        /\ sent = << >>
        /\ ENABLED handle_voice_poll

\* still pending after as many requests as are counted
C16_Witness ==
    /\ PollNonTerminal
    /\ Get(http.poll.d, "status") = "processing"
    /\ calls.poll = MaxPolls
    /\ pc = "poll"
    /\ notices = << >>

(***************************************************************************)
(* Order of the stages.                                                    *)
(***************************************************************************)
\* the upload exchange returned an audio_url, the submit exchange a result_url
UploadGaveUrl ==
    /\ http.upload # NoExchange
    /\ ~http.upload.raised /\ http.upload.status = 200
    /\ http.upload.json = "dict"
    /\ ~Falsy(Get(http.upload.d, "audio_url"))

SubmitGaveUrl ==
    /\ http.submit # NoExchange
    /\ ~http.submit.raised /\ http.submit.status \in {200, 201}
    /\ http.submit.json = "dict"
    /\ ~Falsy(Get(http.submit.d, "result_url"))

\* each stage started only after the one before it returned what it needs
StagesInOrder ==
    /\ calls.submit > 0 => UploadGaveUrl
    /\ calls.poll > 0 => SubmitGaveUrl
    /\ calls.roster > 0 => PollDone
    /\ calls.llm > 0 => calls.roster > 0
    /\ \A j \in 1..Len(sent) :
          (sent[j].edited # "no" \/ sent[j].picked.handled) => calls.llm > 0

\* C17: the stages of one run happen in the order upload, submit, poll,
\* match, resolve, each only after the one before it returned the value it
\* needs, and no stage other than the poll is executed twice.
C17_StagesOnceInOrder ==
    /\ StagesInOrder
    /\ calls.upload <= 1
    /\ calls.submit <= 1
    /\ calls.roster <= 1
    /\ calls.llm <= 1

\* bot.py matched twice and resolved the second chunk as well
C17_MatchTwice ==
    /\ variant = "bot"
    /\ pc = "done"
    /\ calls.upload = 1
    /\ calls.submit = 1
    /\ calls.llm = 2
    /\ Len(sent) = 2
    /\ sent[2].edited = "auto"

(***************************************************************************)
(* Order of the delivery.                                                  *)
(***************************************************************************)
\* the messages sent so far are the first parts of the transcript, in order
DeliveredInOrder ==
    /\ Len(sent) <= Len(Parts(Transcript))
    /\ \A j \in 1..Len(sent) :
          /\ sent[j].payload = Parts(Transcript)[j]
          /\ sent[j].reply_to = (j = 1)

\* C18: the chunks are delivered in ascending index order; chunk i+1 is sent
\* only when the delivery and (in bot.py) the name-resolution step of chunk i
\* are over; and whatever happens inside the name-resolution step of chunk i,
\* an exception it catches included, the handler goes on to send chunk i+1
\* (or ends, after the last chunk) and not to its failure path.
C18_ChunksInOrder ==
    /\ [](sent # << >> => DeliveredInOrder)
    /\ [](variant = "bot" =>
             /\ pc = "names" => calls.roster = Len(sent) - 1
             /\ pc = "send" => calls.roster = Len(sent))
    /\ [][Len(sent') > Len(sent) =>
             /\ pc = "send"
             /\ Len(sent') = Len(sent) + 1]_vars
    /\ [][(pc = "names" /\ calls'.roster # calls.roster) =>
             /\ failStage' = failStage
             /\ pc' = IF Len(sent) < Len(Parts(Transcript))
                      THEN "send" ELSE "done"]_vars

\* the step of the first chunk caught an exception, the second chunk followed
C18_Witness ==
    /\ variant = "bot"
    /\ Len(sent) = 2
    /\ sent[1].failed
    /\ sent[1].text = Decorate(Transcript, 1)
    /\ sent[2].payload = Parts(Transcript)[2]
    /\ failStage = "none"
    /\ pc = "done"

(***************************************************************************)
(* The choice prompt under main() (SpecMain).                              *)
(***************************************************************************)
\* C19: the options of a prompt are removed only when a selection is
\* handled, and a pressed option does not end otherwise than by being handed
\* to handle_user_selection (which then rewrites the text and removes the
\* options).
C19_SelectionReachesHandler ==
    /\ [][\A j \in 1..Len(sent) :
            (sent[j].reply_markup # << >> /\ sent'[j].reply_markup = << >>) =>
                sent'[j].picked.handled]_vars
    /\ [][\A q \in queries :
            q \notin queries' => sent'[q.msg].picked.handled]_vars

\* an option was pressed, the press ended unanswered, the options remain
C19_PressUnanswered ==
    \E j \in 1..Len(sent) :
        /\ sent[j].picked.cause = "dropped"
        /\ ~sent[j].picked.handled
        /\ Len(sent[j].reply_markup) = 2
        /\ sent[j].text = sent[j].payload
        /\ queries = {}

\* C20: at most one selection is ever applied to a prompt (its edit
\* accepted), so the text reflects exactly one chosen handle.
C20_OneSelectionApplied ==
    \A j \in 1..Len(sent) : sent[j].picked.applied <= 1

\* two options of one prompt were pressed before either was handled: both
\* edits were accepted, the text shows the handle of the one handled last
C20_BothApplied ==
    /\ Len(sent) = 1
    /\ sent[1].payload = "Kostya, privet!"
    /\ sent[1].picked.applied = 2
    /\ sent[1].picked.username = "kostya99"
    /\ sent[1].picked.before = "Kostya, privet!"
    /\ sent[1].text = "@kostya99, privet!"
    /\ queries = {}

(***************************************************************************)
(* C22: case-insensitive match anchored at the start of the text           *)
(***************************************************************************)
\* the first characters of the text are the name up to letter case
CaseVariantAtStart(t, n) ==
    /\ Len(t) >= Len(n)
    /\ \A i \in 1..Len(n) :
          \/ CharAt(t, i) = CharAt(n, i)
          \/ Lower(CharAt(t, i)) = CharAt(n, i)
          \/ CharAt(t, i) = Lower(CharAt(n, i))

\* the name at the start is followed by one of `after` or by the end
FollowedBy(t, n, after) ==
    \/ Len(t) = Len(n)
    \/ (Len(t) > Len(n) /\ CharAt(t, Len(n) + 1) \in after)

\* the four parts of the claim, for a given set of delimiters
AnchoredRewrite(delims) ==
    LET t == rw.text
        n == rw.found_name
    IN  rw.returned =>
          IF CaseVariantAtStart(t, n) /\ FollowedBy(t, n, delims)
          THEN rw.out = ("@" \o rw.username) \o SubSeq(t, Len(n) + 1, Len(t))
          ELSE rw.out = t

\* C22: replace_name_with_username matches the name ignoring letter case and
\* only at the start of the text: a case variant of the name at the start
\* followed by a delimiter (a whitespace or punctuation character) or by the
\* end of the text is replaced by "@" and the handle, the character after
\* the name and the rest of the text staying as they were; a name that occurs
\* only elsewhere, or that is followed by any other character, leaves the
\* text unchanged.
C22_AnchoredCaseInsensitive == AnchoredRewrite(Whitespace \cup Punctuation)

\* a case variant of the name followed by ';' is left in place
C22_VariantBeforeSemicolonKept ==
    /\ rw.returned
    /\ rw.text = "k;o"
    /\ rw.found_name = "K"
    /\ rw.out = "k;o"
(***************************************************************************)
(* C23: a second rewrite with the same name and handle                     *)
(***************************************************************************)
\* the rewrite applied again to what the call returned
RewrittenAgain ==
    replace_name_with_username(rw.out, rw.found_name, rw.username)

Repeated(q) ==
    /\ q \in queries
    /\ q \notin queries'
    /\ sent[q.msg].picked.cause = "ok"
    /\ sent[q.msg].picked.found_name = q.found_name
    /\ sent[q.msg].picked.username = q.username
    /\ sent[q.msg].picked.before = q.text

\* handling the same selection a second time leaves the text that handling
\* it once left: the rewrite of the text as it was displayed
SameSelectionTwice ==
    [][\A q \in queries :
          Repeated(q) =>
            /\ sent'[q.msg].text = sent[q.msg].text
            /\ sent'[q.msg].text =
                 replace_name_with_username(q.text, q.found_name, q.username)]_vars

\* one option pressed twice, the first query applied, the second refused
SameSelectionTwiceSeen ==
    /\ Len(sent) = 1
    /\ sent[1].payload = "Kostya, privet!"
    /\ sent[1].picked.handled
    /\ sent[1].picked.cause = "telegram"
    /\ sent[1].picked.applied = 1
    /\ sent[1].picked.username = "kostya99"
    /\ sent[1].text = "@kostya99, privet!"
    /\ queries = {}
(***************************************************************************)
(* C24: the encoding of an option                                          *)
(***************************************************************************)
\* C24: for every option of every choice prompt, the callback data built
\* from the found name and the handle is decoded by handle_user_selection
\* into exactly that name and that handle.
C24_OptionRoundTrips ==
    \A j \in 1..Len(sent) :
        \A k \in 1..Len(sent[j].reply_markup) :
            LET b == sent[j].reply_markup[k] IN
            /\ DecodeOk(b.callback_data)
            /\ Decode(b.callback_data) =
                 [found_name |-> b.found_name, username |-> b.username]

\* a prompt whose options were built from the found name "Sasha:": their
\* data has four fields
C24_ColonInName ==
    /\ Len(sent) = 1
    /\ Len(sent[1].reply_markup) = 2
    /\ sent[1].reply_markup[1].found_name = "Sasha:"
    /\ sent[1].reply_markup[1].username = "kostya99"
    /\ sent[1].reply_markup[1].callback_data = "select_user:Sasha::kostya99"
    /\ Split(sent[1].reply_markup[1].callback_data, ":") =
         << "select_user", "Sasha", "", "kostya99" >>
(***************************************************************************)
(* C25: how the pipeline ends                                              *)
(***************************************************************************)
\* every part of the transcript was delivered
WholeDelivered == PollDone /\ Len(sent) = Len(Parts(Transcript))

Noticed == notices # << >>

C25_ChunkAndNotice ==
    /\ pc = "done"
    /\ PollDone
    /\ Len(sent) = 1
    /\ Len(Parts(Transcript)) = 2
    /\ notices = << [via |-> "reply", text |-> NoticeGeneric] >>
(***************************************************************************)
(* C21: the calls of a pipeline as suspension points                       *)
(***************************************************************************)
\* the task is inside one of the calls the pipeline makes: upload, submit,
\* poll, the delay between polls, or the matching call
InCall(t) ==
    /\ loop.task[t].st \in {"wait", "block"}
    /\ loop.task[t].at \in {"upload", "submit", "poll", "sleep", "names"}

\* the task has steps left to take
Unfinished(t) == loop.task[t].at \notin {"done", "failed"}

CanStep(t) == ENABLED (loop_call(t) \/ loop_resume(t) \/ loop_return(t))

\* C21: while the pipeline of one message is inside any of its network
\* calls, the pipeline of every other unfinished message can take a step.
C21_CallsSuspend ==
    \A t, u \in Tasks :
        (t # u /\ InCall(t) /\ Unfinished(u)) => CanStep(u)

\* message 1 is inside the matching call; message 2, whose upload has not
\* started, cannot take a step
C21_LoopBlocked ==
    /\ loop.task[1].at = "names"
    /\ loop.task[1].st = "block"
    /\ loop.task[2] = NewTask
    /\ ~CanStep(2)
(***************************************************************************)
(* C26: usage rows                                                         *)
(***************************************************************************)
\* at most one row per message, the row being there exactly when the
\* recording step ran and did not fail, and that step running only after a
\* poll request returned a done result with a transcription
UsageRows ==
    \A t \in Tasks :
        /\ loop.rows[t] <= 1
        /\ loop.rows[t] = (IF loop.task[t].usage = "ok" THEN 1 ELSE 0)
        /\ loop.task[t].usage # "none" => loop.task[t].polled = "done"

\* C26 as stated: usage is recorded at most once per message and only after
\* a done result with a transcription, and every message whose transcript
\* was delivered has its row: N transcribed messages, N rows.
C26_RowPerTranscribed ==
    /\ UsageRows
    /\ \A t \in Tasks : loop.task[t].at = "done" => loop.rows[t] = 1

\* C26: with the pipelines of several messages interleaved, usage is recorded
\* at most once per message, only after a poll request returned a done
\* result with a transcription, and a message has its row exactly when its
\* recording step did not fail; whether the recording failed or not, the
\* pipeline goes on to deliver the transcript.
C26_UsageOncePerMessage ==
    /\ []UsageRows
    /\ [][\A t \in Tasks :
            (loop.task[t].at = "usage" /\ loop'.task[t] # loop.task[t]) =>
                loop'.task[t].at = "send"]_vars

\* every message transcribed and delivered, one row each
C26_Witness ==
    /\ \A t \in Tasks : loop.task[t].at = "done" /\ loop.rows[t] = 1
    /\ variant = "bot"

\* a message whose recording failed: transcript delivered, no row
C26_DeliveredWithoutRow ==
    /\ loop.task[1].at = "done"
    /\ loop.task[1].polled = "done"
    /\ loop.task[1].usage = "failed"
    /\ loop.rows[1] = 0
(***************************************************************************)
(* C27: a found name without a candidate                                   *)
(***************************************************************************)
\* C27: when the matching service answered for a delivered message with a
\* found name and with no identifier of a participant (an empty list, or
\* identifiers outside the roster only), the message stays as it was
\* delivered: its text is not rewritten, no options are attached and no edit
\* is made.
C27_NoCandidateUntouched ==
    \A j \in 1..Len(sent) :
        sent[j].nocand =>
            /\ PollDone
            /\ sent[j].text = Decorate(Transcript, j)
            /\ sent[j].reply_markup = << >>
            /\ sent[j].edited = "no"
            /\ ~sent[j].failed
            /\ ~sent[j].picked.handled

\* a transcript delivered, the name found in it matched with nobody
C27_Witness ==
    /\ pc = "done"
    /\ Len(sent) = 1
    /\ sent[1].nocand
    /\ calls.llm = 1
    /\ sent[1].payload = "Kostya, privet!"
    /\ sent[1].text = Decorate("Kostya, privet!", 1)
    /\ sent[1].reply_markup = << >>
(***************************************************************************)
(* C28: a done result without a transcription                              *)
(***************************************************************************)
\* the last poll exchange returned a done result that lacks `result` or
\* `result.transcription`
DoneWithoutText ==
    /\ http.poll # NoExchange
    /\ ~http.poll.raised
    /\ http.poll.status = 200
    /\ http.poll.json = "dict"
    /\ Get(http.poll.d, "status") = "done"
    /\ \/ "result" \notin DOMAIN http.poll.d
       \/ "transcription" \notin DOMAIN http.poll.d["result"]

\* nothing of a successful transcription happened
NothingDelivered ==
    /\ sent = << >>
    /\ db.usages = << >>
    /\ calls.roster = 0
    /\ calls.llm = 0

\* C28 as stated: after a done result without a transcription the pipeline
\* ends with the failure notice on the processing indicator, no transcript
\* message, no usage row and no name-matching call.
C28_NoticeOnIndicator ==
    DoneWithoutText =>
        /\ NothingDelivered
        /\ Finished => /\ notices = << [via |-> "edit", text |-> NoticeNoText] >>
                       /\ procMsg.text = NoticeNoText

\* C28: after a done result without a transcription no transcript message is
\* delivered, no usage row is recorded and no name-matching call is made; the
\* pipeline shows at most one notice: the no-transcription notice on the
\* processing indicator or, when the messaging platform refuses that edit,
\* the generic failure notice; it shows one whenever handle_voice returns
\* without an exception.
C28_TreatedAsFailure ==
    DoneWithoutText =>
        /\ NothingDelivered
        /\ pc \notin {"usage", "match", "delete", "send", "names"}
        /\ notices \in { << >>,
                         << [via |-> "edit", text |-> NoticeNoText] >>,
                         << [via |-> "edit", text |-> NoticeGeneric] >>,
                         << [via |-> "reply", text |-> NoticeGeneric] >> }
        /\ pc = "done" => notices # << >>

\* the no-transcription notice shown on the indicator
C28_Witness ==
    /\ DoneWithoutText
    /\ "result" \in DOMAIN http.poll.d
    /\ pc = "done"
    /\ failStage = "notext"
    /\ notices = << [via |-> "edit", text |-> NoticeNoText] >>
    /\ procMsg = [exists |-> TRUE, text |-> NoticeNoText]
    /\ NothingDelivered

\* the edit of the indicator refused: the generic notice comes as a reply
C28_GenericInstead ==
    /\ DoneWithoutText
    /\ pc = "done"
    /\ notices = << [via |-> "reply", text |-> NoticeGeneric] >>
    /\ procMsg.text # NoticeNoText
(***************************************************************************)
(* C29: one row per key                                                    *)
(***************************************************************************)
\* no two rows of the table agree on the key
OneRowPerKey(rows, key(_)) ==
    \A i, j \in 1..Len(rows) : key(rows[i]) = key(rows[j]) => i = j

\* C29: after any sequence or interleaving of upsert_user, upsert_chat and
\* upsert_user_chat calls there is at most one User row per tg_id, one Chat
\* row per tg_chat_id and one UserChat row per (user, chat), and the roster
\* read for a chat names no participant twice.
C29_OneRowPerKey ==
    /\ OneRowPerKey(db.users, LAMBDA r : r.tg_id)
    /\ OneRowPerKey(db.chats, LAMBDA r : r.tg_chat_id)
    /\ OneRowPerKey(db.user_chats, LAMBDA r : << r.user, r.chat >>)
    /\ OneRowPerKey(ChatUsers(db, ChatId), LAMBDA r : r[3])

\* two callers read before either inserted; the second insert met the row of
\* the first: one user, one chat, one membership
C29_Witness ==
    /\ upserts.conflict
    /\ Len(db.users) = 1
    /\ Len(db.chats) = 1
    /\ Len(db.user_chats) = 1
    /\ Len(ChatUsers(db, ChatId)) = 1
    /\ \A c \in Callers : upserts.slot[c] = Idle
(***************************************************************************)
(* C30: the row after an upsert                                            *)
(***************************************************************************)
\* the call of caller c returns in this step
Returns(c) == upserts.slot[c] # Idle /\ upserts'.slot[c] = Idle

\* the row the call was about carries, in table state d, what the call passed
CarriesPassed(d, call) ==
    CASE call.op = "user" ->
           /\ HasUser(d.users, call.id)
           /\ GetUser(d.users, call.id).firstname = call.first_name
           /\ GetUser(d.users, call.id).lastname = call.last_name
           /\ GetUser(d.users, call.id).username = call.username
      [] call.op = "chat" ->
           /\ HasChat(d.chats, call.id)
           /\ GetChat(d.chats, call.id).name = call.title
      [] OTHER -> TRUE

\* C30: when upsert_user (upsert_chat) returns, the stored row of that tg_id
\* (tg_chat_id) carries the first name, last name and username (the name)
\* that were passed, also when a row with other values was there before.
C30_StoredAsPassed ==
    [][\A c \in Callers :
          Returns(c) => CarriesPassed(db', upserts.slot[c])]_vars

\* the sender was stored, then upsert_user was called with the new name and
\* handle: it found the row and returned it, the row still carrying the old
\* values
C30_OldRowReturned ==
    /\ upserts.last =
         Call("user", 101, "Kostya", "Petrov", "kostya_new", None, 0, 0, "found")
    /\ db.users = << UserRow(1, 101, "Konstantin", None, "kostya99") >>
    /\ ~upserts.conflict
    /\ \A c \in Callers : upserts.slot[c] = Idle
====
